---- MODULE Spec2Model ----
\* A model of the reconnecting WebSocket controller (src/unnamed/part_000).
\* The variables of the factory function's closure are the variables of the
\* model; every function of the closure is an operator from a state record
\* to a state record, so that a handler that calls reconnect() and then
\* emits an event is the composition of the operators, as in the source.
\*
\* Timers are modelled without a clock: a pending timer may fire at any
\* later step.  A timer handle that a variable no longer holds, because the
\* variable was overwritten without clearTimeout, stays pending and can no
\* longer be cancelled: it is an orphan.  In the same way a socket that ws
\* no longer references, but that was never closed and still has the
\* closure's listeners attached, is leaked.  The callbacks of all timers of
\* one kind, and the listeners of all sockets, are the same closures, so
\* orphans and leaked sockets are counted, not told apart.
EXTENDS Integers, Sequences, FiniteSets

\* ---------------------------------------------------------------- bounds
MaxSockets == 2   \* handles of one kind (sockets, connection timers, heartbeat
                  \* intervals) that exist at the same time
MaxProbes == 2    \* heartbeat probes whose timer or pong is outstanding
MaxSends == 2     \* payloads the caller passes to send()
MaxListeners == 2 \* registrations of the caller's handler for one event
MaxRun == 4       \* consecutive reconnects told apart; the delay has reached
                  \* maxReconnectDelay before

CloseCodes == {1000, 1006}

\* The names of the events the controller emits ('message' is left out).
Events == {"open", "error", "close"}

Min(a, b) == IF a <= b THEN a ELSE b

\* ------------------------------------------------------------- settings
positiveIntSchema(x) == x \in Int /\ x >= 1

settingsSchema(s) ==
  /\ positiveIntSchema(s.connectionTimeout)
  /\ positiveIntSchema(s.heartbeatInterval)
  /\ positiveIntSchema(s.heartbeatTimeout)
  /\ positiveIntSchema(s.maxReconnectDelay)
  /\ s.messageBuffering \in BOOLEAN
  /\ positiveIntSchema(s.minReconnectDelay)
  /\ positiveIntSchema(s.reconnectDelayMultiplier)

\* The option records the caller may pass, merged with the defaults: one
\* with heartbeatTimeout >= heartbeatInterval, one with messageBuffering
\* off and minReconnectDelay > maxReconnectDelay, and one that
\* settingsSchema rejects.
OptionRecords ==
  { [connectionTimeout |-> 1, heartbeatInterval |-> 1, heartbeatTimeout |-> 2,
     maxReconnectDelay |-> 3, messageBuffering |-> TRUE,
     minReconnectDelay |-> 1, reconnectDelayMultiplier |-> 2],
    [connectionTimeout |-> 1, heartbeatInterval |-> 2, heartbeatTimeout |-> 1,
     maxReconnectDelay |-> 1, messageBuffering |-> FALSE,
     minReconnectDelay |-> 2, reconnectDelayMultiplier |-> 2],
    [connectionTimeout |-> 1, heartbeatInterval |-> 1, heartbeatTimeout |-> 1,
     maxReconnectDelay |-> 4, messageBuffering |-> TRUE,
     minReconnectDelay |-> 0, reconnectDelayMultiplier |-> 2] }

VARIABLES
  settings,           \* the validated settings record
  connectionTimeout,  \* TRUE when the variable holds a pending connection timer
  heartbeatInterval,  \* TRUE when the variable holds a pending heartbeat interval
  heartbeatTimeout,   \* TRUE when the variable holds a pending heartbeat timer
  reconnectDelay,
  reconnectTimeout,   \* delay of the pending reconnect timer the variable holds, or 0
  ws,                 \* readyState of the socket the variable references, or "undefined"
  isClosed,
  shouldIgnorePongs,
  msgBuffer,
  orphans,            \* pending timers that no variable holds, by kind; those of
                      \* the heartbeat by what became of their probe's pong
  leaked,             \* listening sockets that ws no longer references, by readyState
  heartbeat,          \* the probe of the timer heartbeatTimeout holds, and the
                      \* pongs under way
  resolving,          \* number of url resolutions in flight
  listeners,          \* registrations of the caller's handler with the emitter,
                      \* by event name
  nSent,              \* payloads passed to send() so far
  transmitted,        \* payloads handed to ws.send(), in order
  run,                \* the current run of reconnects without an open
  last                \* what the last step did and emitted

vars == <<settings, connectionTimeout, heartbeatInterval, heartbeatTimeout,
          reconnectDelay, reconnectTimeout, ws, isClosed, shouldIgnorePongs,
          msgBuffer, orphans, leaked, heartbeat, resolving, listeners, nSent,
          transmitted, run, last>>

\* The state as one record, for the operators below.
State ==
  [settings |-> settings, connectionTimeout |-> connectionTimeout,
   heartbeatInterval |-> heartbeatInterval, heartbeatTimeout |-> heartbeatTimeout,
   reconnectDelay |-> reconnectDelay, reconnectTimeout |-> reconnectTimeout,
   ws |-> ws, isClosed |-> isClosed, shouldIgnorePongs |-> shouldIgnorePongs,
   msgBuffer |-> msgBuffer, orphans |-> orphans, leaked |-> leaked,
   heartbeat |-> heartbeat, resolving |-> resolving, listeners |-> listeners,
   nSent |-> nSent, transmitted |-> transmitted, run |-> run, last |-> last]

Commit(w) ==
  /\ settings' = w.settings
  /\ connectionTimeout' = w.connectionTimeout
  /\ heartbeatInterval' = w.heartbeatInterval
  /\ heartbeatTimeout' = w.heartbeatTimeout
  /\ reconnectDelay' = w.reconnectDelay
  /\ reconnectTimeout' = w.reconnectTimeout
  /\ ws' = w.ws
  /\ isClosed' = w.isClosed
  /\ shouldIgnorePongs' = w.shouldIgnorePongs
  /\ msgBuffer' = w.msgBuffer
  /\ orphans' = w.orphans
  /\ leaked' = w.leaked
  /\ heartbeat' = w.heartbeat
  /\ resolving' = w.resolving
  /\ listeners' = w.listeners
  /\ nSent' = w.nSent
  /\ transmitted' = w.transmitted
  /\ run' = w.run
  /\ last' = w.last

\* probe: where the ping of the timer that heartbeatTimeout holds was sent,
\* on the socket ws references ("ws"), on one that has leaked since
\* ("leaked"), or nowhere ("none"); pong: the pong of that ping is under
\* way; late: pongs under way whose probe's timer is no longer pending.
NoHeartbeat == [probe |-> "none", pong |-> FALSE, late |-> 0]

\* Heartbeat timers no variable holds: awaited, the probe's pong is under way;
\* silent, no pong is under way and none was handled; answered, the pong was
\* handled by onPong while the timer was pending.
NoOrphans ==
  [connection |-> 0, interval |-> 0, reconnect |-> 0,
   awaited |-> 0, silent |-> 0, answered |-> 0]

\* prev: the delay of the last reconnect, 0 when a socket opened since (or
\* none was made); reset: the reconnectDelay that the last open replaced,
\* 0 when a reconnect was made since (or no socket opened).
NoRun == [prev |-> 0, reset |-> 0]

\* What a handler sees of the controller when an emission invokes it.
NoSeen ==
  [reconnectDelay |-> 0, connectionTimers |-> 0, msgBuffer |-> <<>>,
   transmitted |-> <<>>]

\* op: the call, callback or listener that ran; event, code, willReconnect:
\* what it emitted; delay: the delay it gave the reconnect timer, 0 when it
\* set none; reset: run.reset when it set that timer; created: it made a
\* socket; answered: the heartbeat timer that fired was an answered one;
\* probe: heartbeat.probe of the heartbeat timer that fired; again: close()
\* was called on a closed controller; transport: the code of the
\* transport's close event; uncaught: an exception left the step uncaught;
\* name: the event name passed to on() or removeListener(); handler: what
\* the caller's handler does when the step invokes it; invoked: how often
\* the step's emission invoked it; seen: what it saw when it was invoked.
Step(op) ==
  [op |-> op, event |-> "none", code |-> 0, willReconnect |-> FALSE,
   delay |-> 0, reset |-> 0, created |-> FALSE, answered |-> FALSE,
   probe |-> "none", again |-> FALSE, transport |-> 0, uncaught |-> FALSE,
   name |-> "none", handler |-> "idle", invoked |-> 0, seen |-> NoSeen]

Begin(w, op) == [w EXCEPT !.last = Step(op)]

B2N(b) == IF b THEN 1 ELSE 0

\* ------------------------------------------------------------- the timers
clearConnectionTimeout(w) == [w EXCEPT !.connectionTimeout = FALSE]

\* The pong of a probe whose timer is gone is late.
clearHeartbeatTimeout(w) ==
  [w EXCEPT !.heartbeatTimeout = FALSE,
            !.heartbeat = [probe |-> "none", pong |-> FALSE,
                           late |-> @.late + B2N(@.pong)]]

clearHeartbeatInterval(w) == [w EXCEPT !.heartbeatInterval = FALSE]

clearReconnectTimeout(w) == [w EXCEPT !.reconnectTimeout = 0]

\* connectionTimeout = setTimeout(...): a timer the variable held stays pending
setConnectionTimeout(w) ==
  [w EXCEPT !.orphans.connection = @ + B2N(w.connectionTimeout),
            !.connectionTimeout = TRUE]

\* heartbeatInterval = setInterval(...)
setHeartbeatInterval(w) ==
  [w EXCEPT !.orphans.interval = @ + B2N(w.heartbeatInterval),
            !.heartbeatInterval = TRUE]

\* heartbeatTimeout = setTimeout(...)
setHeartbeatTimeout(w) ==
  [w EXCEPT !.orphans.awaited = @ + B2N(w.heartbeatTimeout /\ w.heartbeat.pong),
            !.orphans.silent = @ + B2N(w.heartbeatTimeout /\ ~w.heartbeat.pong),
            !.heartbeatTimeout = TRUE,
            !.heartbeat.probe = "none",
            !.heartbeat.pong = FALSE]

\* reconnectTimeout = setTimeout(connect, delay)
setReconnectTimeout(w, delay) ==
  [w EXCEPT !.orphans.reconnect = @ + B2N(w.reconnectTimeout # 0),
            !.reconnectTimeout = delay]

\* ---------------------------------------------------------- the transport
Alive(state) == state \in {"CONNECTING", "OPEN"}

\* A pong is handled only while a socket with the closure's listeners is
\* open.  Pongs are not told apart by socket: when the last such socket
\* goes, the pongs under way are lost.
Listening(w) == w.ws = "OPEN" \/ w.leaked.open > 0

DropPongs(w) ==
  IF Listening(w) THEN w
  ELSE [w EXCEPT !.heartbeat.pong = FALSE,
                 !.heartbeat.late = 0,
                 !.orphans.awaited = 0,
                 !.orphans.silent = @ + w.orphans.awaited]

\* ws = new WebSocket(url), with the five listeners attached; the socket ws
\* referenced before keeps its listeners.
newWebSocket(w) ==
  [w EXCEPT !.leaked.connecting = @ + B2N(w.ws = "CONNECTING"),
            !.leaked.open = @ + B2N(w.ws = "OPEN"),
            !.heartbeat.probe = IF @ = "ws" THEN "leaked" ELSE @,
            !.ws = "CONNECTING",
            !.last.created = TRUE]

\* ws.removeAllListeners(); ws.close(code): no event of the socket is heard
\* any more.  A close() that throws because the socket is still connecting
\* (the try/catch of cleanup) is taken to abandon the handshake.
wsRemoveAllListenersAndClose(w, code) == DropPongs([w EXCEPT !.ws = "CLOSED"])

\* ws.send(body)
wsSend(w, body) == [w EXCEPT !.transmitted = Append(@, body)]

\* ws.ping(), for the probe whose timer was just started
wsPing(w) == [w EXCEPT !.heartbeat.probe = "ws", !.heartbeat.pong = TRUE]

\* --------------------------------------------------- what is outstanding
Sockets(w) == B2N(Alive(w.ws)) + w.leaked.connecting + w.leaked.open

ConnectionTimers(w) == B2N(w.connectionTimeout) + w.orphans.connection

HeartbeatIntervals(w) == B2N(w.heartbeatInterval) + w.orphans.interval

HeartbeatTimers(w) ==
  B2N(w.heartbeatTimeout) + w.orphans.awaited + w.orphans.silent
    + w.orphans.answered

ReconnectTimers(w) == B2N(w.reconnectTimeout # 0) + w.orphans.reconnect

\* The probes whose timer or pong is outstanding.
Probes(w) == HeartbeatTimers(w) + w.heartbeat.late

\* ------------------------------------------------------------ the closure
isOpen(w) == w.ws = "OPEN"

\* send() as it would be if it buffered whatever the settings say.
sendBuffersAlways(w, body) ==
  IF isOpen(w) THEN wsSend(w, body)
  ELSE [w EXCEPT !.msgBuffer = Append(@, body)]

send(w, body) ==
  IF isOpen(w) THEN wsSend(w, body)
  ELSE IF w.settings.messageBuffering
       THEN [w EXCEPT !.msgBuffer = Append(@, body)]
       ELSE w

\* msgs.forEach(send)
RECURSIVE forEachSend(_, _)
forEachSend(w, msgs) ==
  IF msgs = <<>> THEN w ELSE forEachSend(send(w, Head(msgs)), Tail(msgs))

ping(w) == IF isOpen(w) THEN wsPing(w) ELSE w

\* ------------------------------------------------------------ the emitter
\* The event name under which an emission of the model is emitted.
EventName(event) == IF event \in {"open", "close"} THEN event ELSE "error"

Seen(w) ==
  [reconnectDelay |-> w.reconnectDelay, connectionTimers |-> ConnectionTimers(w),
   msgBuffer |-> w.msgBuffer, transmitted |-> w.transmitted]

\* on: emitter.on.bind(emitter)
on(w, name) == [w EXCEPT !.listeners[name] = @ + 1]

\* removeListener: emitter.on.bind(emitter)
removeListener(w, name) == on(w, name)

\* emitter.removeAllListeners()
removeAllListeners(w) == [w EXCEPT !.listeners = [e \in Events |-> 0]]

cleanup(w, code) ==
  LET c == clearReconnectTimeout(clearHeartbeatInterval(
             clearHeartbeatTimeout(clearConnectionTimeout(w))))
  IN IF c.ws # "undefined" THEN wsRemoveAllListenersAndClose(c, code) ELSE c

nextDelay(w) ==
  Min(w.reconnectDelay * w.settings.reconnectDelayMultiplier,
      w.settings.maxReconnectDelay)

reconnect(w, code) ==
  LET c == cleanup(w, code)
      d == setReconnectTimeout(c, c.reconnectDelay)
  IN [d EXCEPT !.reconnectDelay = nextDelay(c),
               !.run = [prev |-> d.reconnectTimeout, reset |-> 0],
               !.last.delay = d.reconnectTimeout,
               !.last.reset = c.run.reset]

\* close() as it would be without its isClosed check.
closeUnguarded(w, code) ==
  [removeAllListeners(cleanup(w, code)) EXCEPT !.isClosed = TRUE]

close(w, code) ==
  IF w.isClosed THEN w
  ELSE [removeAllListeners(cleanup(w, code)) EXCEPT !.isClosed = TRUE]

ignorePongs(w) == [w EXCEPT !.shouldIgnorePongs = TRUE]

\* The caller's handler: one that does nothing to the controller, one that
\* passes the next payload to send(), or one that calls close().
handler(w) ==
  IF w.last.handler = "sends"
  THEN send([w EXCEPT !.nSent = @ + 1], w.nSent + 1)
  ELSE IF w.last.handler = "closes" THEN close(w, 1000)
  ELSE w

RECURSIVE invoke(_, _)
invoke(w, n) == IF n = 0 THEN w ELSE invoke(handler(w), n - 1)

\* emitter.emit(event, ...): the handler is invoked once for each of its
\* registrations under the event's name.
emit(w, event, code, willReconnect) ==
  LET e == [w EXCEPT !.last.event = event, !.last.code = code,
                     !.last.willReconnect = willReconnect,
                     !.last.invoked = w.listeners[EventName(event)],
                     !.last.seen = Seen(w)]
  IN invoke(e, e.last.invoked)

\* onOpen() as it would be if it kept the reconnect delay.
onOpenKeepsDelay(w) ==
  LET w1 == setHeartbeatInterval(clearConnectionTimeout(w))
      w2 == [w1 EXCEPT !.run = [prev |-> 0, reset |-> w.reconnectDelay]]
      w3 == forEachSend([w2 EXCEPT !.msgBuffer = <<>>], w2.msgBuffer)
  IN emit(w3, "open", 0, FALSE)

onOpen(w) ==
  LET w1 == setHeartbeatInterval(clearConnectionTimeout(w))
      w2 == [w1 EXCEPT !.reconnectDelay = w.settings.minReconnectDelay,
                       !.run = [prev |-> 0, reset |-> w.reconnectDelay]]
      w3 == forEachSend([w2 EXCEPT !.msgBuffer = <<>>], w2.msgBuffer)
  IN emit(w3, "open", 0, FALSE)

onPong(w) ==
  IF w.shouldIgnorePongs THEN w ELSE clearHeartbeatTimeout(w)

onError(w) == emit(w, "error: transport", 0, FALSE)

onClose(w, code) == emit(reconnect(w, 1000), "close", code, TRUE)

\* connect(): url() is called outside the promise chain, so what it throws
\* leaves connect(); otherwise the resolution of the url starts.
connect(w, throws) ==
  IF throws THEN [w EXCEPT !.last.uncaught = TRUE]
  ELSE [w EXCEPT !.resolving = @ + 1]

\* The .then() of connect() as it would be without its isClosed check.
connectThenUnguarded(w) == setConnectionTimeout(newWebSocket(w))

\* The .then() of connect(): the url resolved to a string.
connectThen(w) ==
  IF w.isClosed THEN w
  ELSE setConnectionTimeout(newWebSocket(w))

\* The .catch() of connect(): the resolution rejected, or gave no string.
connectCatch(w) ==
  IF w.isClosed THEN w
  ELSE emit(reconnect(w, 1000), "error: resolve", 0, FALSE)

\* The callback of the connection timer.
connectionTimeoutCallback(w) ==
  emit(reconnect(w, 1000), "error: connection timeout", 0, FALSE)

\* The callback of the heartbeat timer.
heartbeatTimeoutCallback(w) ==
  emit(reconnect(w, 1000), "error: heartbeat timeout", 0, FALSE)

\* The callback of the heartbeat interval.
heartbeatIntervalCallback(w) == ping(setHeartbeatTimeout(w))

\* ------------------------------------------------------------ bookkeeping
Do(w) == Commit(w)

\* What the handler of an emission under the given name may do: a handler
\* that calls close() is one the caller has registered under that name.
Handlers(name) ==
  {"idle"} \cup (IF listeners[name] > 0 THEN {"closes"} ELSE {})

\* ------------------------------------------------------------------- Init
Init ==
  /\ settings \in {s \in OptionRecords : settingsSchema(s)}
  /\ connectionTimeout = FALSE
  /\ heartbeatInterval = FALSE
  /\ heartbeatTimeout = FALSE
  /\ reconnectDelay = settings.minReconnectDelay
  /\ reconnectTimeout = 0
  /\ ws = "undefined"
  /\ isClosed = FALSE
  /\ shouldIgnorePongs = FALSE
  /\ msgBuffer = <<>>
  /\ orphans = NoOrphans
  /\ leaked = [connecting |-> 0, open |-> 0]
  /\ heartbeat = NoHeartbeat
  /\ resolving = 1          \* the factory ends with connect()
  /\ listeners = [e \in Events |-> 0]
  /\ nSent = 0
  /\ transmitted = <<>>
  /\ run = NoRun
  /\ last = Step("create")

\* ---------------------------------------------------- the caller's calls
Send ==
  /\ nSent < MaxSends
  /\ Do(send([Begin(State, "send") EXCEPT !.nSent = @ + 1], nSent + 1))

Reconnect ==
  \E code \in CloseCodes : Do(reconnect(Begin(State, "reconnect"), code))

Close ==
  \E code \in CloseCodes :
    Do(close([Begin(State, "close") EXCEPT !.last.again = isClosed], code))

IgnorePongs ==
  /\ ~shouldIgnorePongs
  /\ Do(ignorePongs(Begin(State, "ignorePongs")))

\* The caller registers its handler; it uses the handler for one event name.
On ==
  \E name \in Events :
    /\ listeners[name] < MaxListeners
    /\ \A other \in Events \ {name} : listeners[other] = 0
    /\ Do(on([Begin(State, "on") EXCEPT !.last.name = name], name))

\* The caller removes the handler it registered.  The call adds a
\* registration, so it is bounded as on() is.
RemoveListener ==
  \E name \in Events :
    /\ listeners[name] > 0
    /\ listeners[name] < MaxListeners
    /\ Do(removeListener([Begin(State, "removeListener") EXCEPT
                            !.last.name = name], name))

\* ------------------------------------------------------ deferred callbacks
\* The url resolves and the .then() handler runs.
Resolved ==
  /\ resolving > 0
  /\ ~isClosed => ConnectionTimers(State) < MaxSockets
  /\ Do(connectThen([Begin(State, "connectThen") EXCEPT !.resolving = @ - 1]))

\* The url does not resolve to a string and the .catch() handler runs.
Rejected ==
  \E h \in Handlers("error") :
    /\ resolving > 0
    /\ h = "closes" => ~isClosed
    /\ Do(connectCatch([Begin(State, "connectCatch") EXCEPT
                         !.resolving = @ - 1, !.last.handler = h]))

\* A pending connection timer fires: the one the variable holds or an orphan.
ConnectionTimeoutFires ==
  \E held \in {b \in BOOLEAN : IF b THEN connectionTimeout
                               ELSE orphans.connection > 0},
     h \in Handlers("error") :
    Do(connectionTimeoutCallback(
         [Begin(State, "connectionTimeout") EXCEPT
            !.last.handler = h,
            !.connectionTimeout = IF held THEN FALSE ELSE @,
            !.orphans.connection = IF held THEN @ ELSE @ - 1]))

\* A heartbeat interval ticks.  With heartbeatTimeout < heartbeatInterval the
\* timer the last tick of an interval started has fired, or was cleared, by
\* the interval's next tick.
HeartbeatIntervalFires ==
  /\ HeartbeatIntervals(State) > 0
  /\ Probes(State) < MaxProbes
  /\ (settings.heartbeatTimeout < settings.heartbeatInterval
        /\ HeartbeatIntervals(State) = 1) => HeartbeatTimers(State) = 0
  /\ Do(heartbeatIntervalCallback(Begin(State, "heartbeatInterval")))

\* A pending heartbeat timer fires: the one the variable holds ("held") or
\* an orphan of the given kind.
FiringHeartbeatTimers ==
  {k \in {"held", "awaited", "silent", "answered"} :
     IF k = "held" THEN heartbeatTimeout ELSE orphans[k] > 0}

HeartbeatTimeoutFires ==
  \E k \in FiringHeartbeatTimers, h \in Handlers("error") :
    LET w0 == [Begin(State, "heartbeatTimeout") EXCEPT
                 !.last.handler = h,
                 !.last.answered = (k = "answered"),
                 !.last.probe = IF k = "held" THEN heartbeat.probe ELSE "none"]
        w1 == IF k = "held" THEN clearHeartbeatTimeout(w0)
              ELSE [w0 EXCEPT !.orphans[k] = @ - 1,
                              !.heartbeat.late = @ + B2N(k = "awaited")]
    IN Do(heartbeatTimeoutCallback(w1))

\* A pending reconnect timer fires: the one the variable holds or an orphan.
\* Every resolution in flight has room for the socket it may create.
ReconnectTimeoutFires ==
  /\ resolving + Sockets(State) < MaxSockets
  /\ \E held \in {b \in BOOLEAN : IF b THEN reconnectTimeout # 0
                                  ELSE orphans.reconnect > 0} :
       Do(connect([Begin(State, "connect") EXCEPT
                     !.reconnectTimeout = IF held THEN 0 ELSE @,
                     !.orphans.reconnect = IF held THEN @ ELSE @ - 1],
                  FALSE))

\* A pending reconnect timer fires and the url function throws when connect()
\* calls it.
UrlThrows ==
  \E held \in {b \in BOOLEAN : IF b THEN reconnectTimeout # 0
                               ELSE orphans.reconnect > 0} :
    Do(connect([Begin(State, "connect") EXCEPT
                  !.reconnectTimeout = IF held THEN 0 ELSE @,
                  !.orphans.reconnect = IF held THEN @ ELSE @ - 1],
               TRUE))

\* ------------------------------------------------------- transport events
\* The sockets an event can come from: the one ws references, or a leaked one
\* in the given readyState.
Sources(states) ==
  {s \in {"ws"} \X states : ws = s[2]}
    \cup {s \in {"leaked"} \X states :
            IF s[2] = "OPEN" THEN leaked.open > 0 ELSE leaked.connecting > 0}

\* The socket s leaves its readyState for `to`.
Becomes(w, s, to) ==
  IF s[1] = "ws" THEN [w EXCEPT !.ws = to]
  ELSE [w EXCEPT !.leaked.connecting = @ - B2N(s[2] = "CONNECTING")
                                         + B2N(to = "CONNECTING"),
                 !.leaked.open = @ - B2N(s[2] = "OPEN") + B2N(to = "OPEN")]

\* A socket opens.  The handler of 'open', when registered, may be one
\* that calls send().
TransportOpen ==
  \E s \in Sources({"CONNECTING"}), h \in {"idle", "sends"} :
    /\ HeartbeatIntervals(State) < MaxSockets
    /\ h = "sends" => /\ listeners["open"] > 0
                      /\ nSent + listeners["open"] <= MaxSends
    /\ Do(onOpen(Becomes([Begin(State, "onOpen") EXCEPT !.last.handler = h],
                         s, "OPEN")))

\* The peer closes the socket, or the connection fails.
TransportClose ==
  \E s \in Sources({"CONNECTING", "OPEN"}), code \in CloseCodes,
     h \in Handlers("close") :
    Do(onClose(DropPongs(Becomes([Begin(State, "onClose") EXCEPT
                                    !.last.handler = h,
                                    !.last.transport = code], s, "CLOSED")),
               code))

TransportError ==
  \E s \in Sources({"CONNECTING", "OPEN"}) :
    Do(onError(Begin(State, "onError")))

\* A pong arrives: that of the probe whose timer the variable holds, that of
\* a probe whose timer is an orphan, or a late one.  The probe is answered
\* when onPong does not ignore the pong.
ArrivingPongs ==
  {k \in {"held", "awaited", "late"} :
     CASE k = "held" -> heartbeat.pong
       [] k = "awaited" -> orphans.awaited > 0
       [] OTHER -> heartbeat.late > 0}

TransportPong ==
  \E k \in ArrivingPongs :
    LET w0 == Begin(State, "onPong")
        w1 == CASE k = "held" -> [w0 EXCEPT !.heartbeat.pong = FALSE]
                [] k = "awaited" ->
                     [w0 EXCEPT !.orphans.awaited = @ - 1,
                                !.orphans.answered = @ + B2N(~shouldIgnorePongs),
                                !.orphans.silent = @ + B2N(shouldIgnorePongs)]
                [] OTHER -> [w0 EXCEPT !.heartbeat.late = @ - 1]
    IN Do(onPong(w1))

Next ==
  \/ Send
  \/ Reconnect
  \/ Close
  \/ IgnorePongs
  \/ On
  \/ RemoveListener
  \/ Resolved
  \/ Rejected
  \/ ConnectionTimeoutFires
  \/ HeartbeatIntervalFires
  \/ HeartbeatTimeoutFires
  \/ ReconnectTimeoutFires
  \/ UrlThrows
  \/ TransportOpen
  \/ TransportClose
  \/ TransportError
  \/ TransportPong

Spec == Init /\ [][Next]_vars

\* The caller never sends and never calls ignorePongs(), and the transport
\* reports no error: none of the three changes a timer or a socket.
NextLifecycle ==
  \/ Reconnect
  \/ Close
  \/ Resolved
  \/ Rejected
  \/ ConnectionTimeoutFires
  \/ HeartbeatIntervalFires
  \/ HeartbeatTimeoutFires
  \/ ReconnectTimeoutFires
  \/ TransportOpen
  \/ TransportClose
  \/ TransportPong

SpecLifecycle == Init /\ [][NextLifecycle]_vars

\* A pending timer fires in the end.  Nothing makes the url promise settle,
\* which is the caller's, or the transport report an event.
SpecLive ==
  /\ Init
  /\ [][NextLifecycle]_vars
  /\ WF_vars(ConnectionTimeoutFires)
  /\ WF_vars(HeartbeatTimeoutFires)
  /\ WF_vars(ReconnectTimeoutFires)

\* No heartbeat interval ticks: a heartbeat timeout is then one more way,
\* besides the connection timeout, the peer's close and the caller's
\* reconnect(), in which reconnect() comes to be called.
NextBuffer ==
  \/ Send
  \/ Reconnect
  \/ Close
  \/ Resolved
  \/ Rejected
  \/ ConnectionTimeoutFires
  \/ ReconnectTimeoutFires
  \/ TransportOpen
  \/ TransportClose

SpecBuffer == Init /\ [][NextBuffer]_vars

\* The ways an attempt fails, without the heartbeat: the url function may
\* throw and the transport may report an error.
NextFailure ==
  \/ Reconnect
  \/ Close
  \/ Resolved
  \/ Rejected
  \/ ConnectionTimeoutFires
  \/ ReconnectTimeoutFires
  \/ UrlThrows
  \/ TransportOpen
  \/ TransportClose
  \/ TransportError

SpecFailure == Init /\ [][NextFailure]_vars

\* As NextBuffer, with a caller that registers and removes a handler.
NextEmitter ==
  \/ Send
  \/ Reconnect
  \/ Close
  \/ On
  \/ RemoveListener
  \/ Resolved
  \/ Rejected
  \/ ConnectionTimeoutFires
  \/ ReconnectTimeoutFires
  \/ TransportOpen
  \/ TransportClose

SpecEmitter == Init /\ [][NextEmitter]_vars

\* The controller with a caller that only registers handlers: close() is
\* called by a handler or not at all, and reconnect() by the controller only.
NextHandler ==
  \/ On
  \/ Resolved
  \/ Rejected
  \/ ConnectionTimeoutFires
  \/ HeartbeatIntervalFires
  \/ HeartbeatTimeoutFires
  \/ ReconnectTimeoutFires
  \/ TransportOpen
  \/ TransportClose
  \/ TransportPong

SpecHandler == Init /\ [][NextHandler]_vars

\* ----------------------------------------------------------------- claims
Range(seq) == {seq[i] : i \in 1..Len(seq)}

\* The payloads passed to send() that are neither transmitted nor buffered.
Dropped(w) ==
  {i \in 1..w.nSent : i \notin Range(w.transmitted) /\ i \notin Range(w.msgBuffer)}

\* C1: with messageBuffering on, a payload sent while ws is not open is
\* appended to the buffer, and when a socket of the controller opens the
\* buffered payloads are handed to the transport, in their order, and the
\* buffer is empty once the open is handled.
C1_BufferedSentOnOpen ==
  [][settings.messageBuffering =>
       /\ (last'.op = "send" /\ ws # "OPEN")
            => (msgBuffer' = Append(msgBuffer, nSent') /\ transmitted' = transmitted)
       /\ last'.op = "onOpen"
            => (msgBuffer' = <<>> /\ transmitted' = transmitted \o msgBuffer)]_vars

\* C2: with messageBuffering off, a payload sent while ws is not open is
\* dropped by send(), and a dropped payload is never transmitted (nor
\* buffered) by any later step.
C2_DroppedNeverTransmitted ==
  [][~settings.messageBuffering =>
       /\ (last'.op = "send" /\ ws # "OPEN") => nSent' \in Dropped(State')
       /\ Dropped(State) \subseteq Dropped(State')]_vars

\* A payload was dropped, a socket opened later and the next payload went out.
C2_Witness ==
  /\ ~settings.messageBuffering
  /\ 1 \in Dropped(State)
  /\ ws = "OPEN"
  /\ transmitted = <<2>>

\* C3: once isClosed is set, no step creates a socket: no resolution that
\* completes, no timer that fires and no call of reconnect().
C3_NoSocketAfterClose ==
  [][isClosed => (~last'.created /\ Sockets(State') <= Sockets(State))]_vars

\* A resolution completes on the closed controller.
C3_Witness == isClosed /\ last.op = "connectThen" /\ ~last.created

\* C4: when the first close() returns, no timer of the controller is
\* pending and no socket has its listeners attached or is unclosed.
C4_CloseLeavesNothing ==
  (last.op = "close" /\ ~last.again) =>
    /\ ConnectionTimers(State) = 0
    /\ HeartbeatIntervals(State) = 0
    /\ HeartbeatTimers(State) = 0
    /\ ReconnectTimers(State) = 0
    /\ Sockets(State) = 0

\* C5: close() on a closed controller changes no variable of the closure,
\* no timer and no socket, and emits nothing.
C5_SecondCloseNoEffect ==
  [][(isClosed /\ last'.op = "close") =>
       /\ UNCHANGED <<settings, connectionTimeout, heartbeatInterval,
                      heartbeatTimeout, reconnectDelay, reconnectTimeout, ws,
                      isClosed, shouldIgnorePongs, msgBuffer, orphans, leaked,
                      heartbeat, resolving, listeners, transmitted>>
       /\ last'.event = "none"]_vars

\* close() is called again while a reconnect timer, set by reconnect() after
\* the first close(), is pending.
C5_Witness == last.op = "close" /\ last.again /\ reconnectTimeout # 0

\* C6: the delay of every reconnect timer is at most maxReconnectDelay and at
\* least the delay of the reconnect before it, unless a socket opened
\* between the two.
C6_DelayBoundedAndMonotone ==
  [][last'.delay # 0 =>
       /\ last'.delay <= settings.maxReconnectDelay
       /\ run.prev # 0 => run.prev <= last'.delay]_vars

\* C7: the first reconnect after an open is given minReconnectDelay and
\* leaves reconnectDelay at min(minReconnectDelay * multiplier, max).
C7_DelayResetByOpen ==
  [][(last'.delay # 0 /\ run.reset # 0) =>
       /\ last'.delay = settings.minReconnectDelay
       /\ reconnectDelay' =
            Min(settings.minReconnectDelay * settings.reconnectDelayMultiplier,
                settings.maxReconnectDelay)]_vars

\* A reconnect follows an open that replaced a delay grown by earlier failures.
C7_Witness == last.delay # 0 /\ last.reset > settings.minReconnectDelay

\* C8: when the heartbeat timer of a probe that was sent fires, the callback
\* emits the heartbeat-timeout error, closes the socket the probe was sent
\* on and sets the reconnect timer.
C8_TimeoutTearsDownAndReconnects ==
  (last.op = "heartbeatTimeout" /\ last.probe # "none") =>
    /\ last.event = "error: heartbeat timeout"
    /\ last.probe = "ws" /\ ws = "CLOSED"
    /\ last.delay # 0 /\ reconnectTimeout = last.delay

\* C9: a heartbeat timer that fires is not that of a probe whose pong onPong
\* handled while the timer was pending.
C9_NoTimeoutForAnsweredProbe == last.op = "heartbeatTimeout" => ~last.answered

\* C10: a 'close' event is emitted by onClose, with the code of the
\* transport's close event and willReconnect = TRUE; close() emits none; and
\* the event is emitted only by a controller that is not permanently
\* closed, so that the reconnect it announces can follow.
C10_CloseEventAnnouncesReconnect ==
  /\ last.event = "close" =>
       /\ last.op = "onClose"
       /\ last.code = last.transport
       /\ last.willReconnect
       /\ ~isClosed
  /\ last.op = "close" => last.event = "none"

\* C11: a resolution that fails, because the promise rejects, because it
\* gives no string or because the url function throws, makes the controller
\* emit the resolution error and set the reconnect timer with the delay
\* reconnectDelay had; nothing is left uncaught.
C11_ResolutionFailureHandled ==
  [][((last'.op = "connectCatch" /\ ~isClosed) \/ last'.uncaught) =>
       /\ ~last'.uncaught
       /\ last'.event = "error: resolve"
       /\ last'.delay = reconnectDelay
       /\ reconnectTimeout' = reconnectDelay]_vars

\* C12: the listener of the transport's error event emits the error, closes
\* the socket ws references and sets the reconnect timer.
C12_TransportErrorReconnects ==
  last.op = "onError" =>
    /\ last.event = "error: transport"
    /\ ~Alive(ws)
    /\ last.delay # 0 /\ reconnectTimeout = last.delay

RECURSIVE Pow(_, _)
Pow(b, e) == IF e = 0 THEN 1 ELSE b * Pow(b, e - 1)

\* min(minReconnectDelay * reconnectDelayMultiplier^(n-1), maxReconnectDelay)
NthDelay(n) ==
  Min(settings.minReconnectDelay * Pow(settings.reconnectDelayMultiplier, n - 1),
      settings.maxReconnectDelay)

\* C13: reconnect() gives the timer the delay reconnectDelay had and then
\* advances reconnectDelay once; the delay is that of the n-th reconnect of
\* its run, the first of a run being the first since construction or since
\* the last open; and the timer it sets is the only reconnect timer pending.
C13_NthReconnectDelay ==
  [][last'.delay # 0 =>
       /\ last'.delay = reconnectDelay
       /\ reconnectTimeout' = reconnectDelay
       /\ reconnectDelay' = nextDelay(State)
       /\ \E n \in 1..MaxRun :
            /\ last'.delay = NthDelay(n)
            /\ IF run.prev = 0 THEN n = 1
               ELSE n > 1 /\ run.prev = NthDelay(n - 1)
       /\ ReconnectTimers(State') = 1]_vars

\* C14: removeListener(name, handler) leaves no registration of the handler
\* under the name and adds none under any name, and an emission that
\* follows it under that name does not invoke the handler.
C14_RemovedHandlerNotInvoked ==
  [][/\ last'.op = "removeListener" =>
          /\ listeners'[last'.name] = 0
          /\ \A e \in Events : listeners'[e] <= listeners[e]
     /\ (/\ last.op = "removeListener"
         /\ last'.event # "none"
         /\ EventName(last'.event) = last.name) => last'.invoked = 0]_vars

\* C15: send() called while a socket of the controller is open appends the
\* payload to what the transport was handed, once, and leaves the buffer as
\* it was, whatever messageBuffering is.
C15_SendWhileOpenTransmits ==
  [][(last'.op = "send" /\ Listening(State)) =>
       /\ transmitted' = Append(transmitted, nSent')
       /\ msgBuffer' = msgBuffer]_vars

\* C16: at most one socket that the controller created is neither closed by
\* it nor without its listeners.
C16_OneLiveSocket == Sockets(State) <= 1

\* C17: at most one timer of each kind is pending.
C17_OneTimerOfEachKind ==
  /\ ConnectionTimers(State) <= 1
  /\ HeartbeatIntervals(State) <= 1
  /\ HeartbeatTimers(State) <= 1
  /\ ReconnectTimers(State) <= 1

\* C20: send() on a closed controller hands nothing to the transport and
\* leaves the buffer as it was.
C20_SendAfterCloseNoEffect ==
  [][(isClosed /\ last'.op = "send") =>
       /\ transmitted' = transmitted
       /\ msgBuffer' = msgBuffer]_vars

\* An attempt is under way: a url resolution is in flight or the socket ws
\* references is connecting.
Connecting(w) == ~w.isClosed /\ (w.resolving > 0 \/ w.ws = "CONNECTING")

\* C18: an attempt, from the start of its url resolution, ends with an
\* 'open' or with a step that sets the reconnect timer, unless close() is
\* called; and the controller does not stay connecting for ever with no
\* connection timer and no reconnect timer pending.
C18_AttemptsEnd ==
  /\ (last.op \in {"create", "connect"} /\ Connecting(State))
       ~> (last.event = "open" \/ last.delay # 0 \/ isClosed)
  /\ []<>~(/\ Connecting(State)
           /\ ConnectionTimers(State) = 0
           /\ ReconnectTimers(State) = 0)

\* C19: when the handlers of 'open' run, reconnectDelay is
\* minReconnectDelay, no connection timer is pending, the buffer is empty
\* and the payloads it held have been handed to the transport, in their
\* order; what the handlers send comes after them.
C19_DrainBeforeOpenEvent ==
  [][last'.event = "open" =>
       /\ last'.seen.reconnectDelay = settings.minReconnectDelay
       /\ last'.seen.connectionTimers = 0
       /\ last'.seen.msgBuffer = <<>>
       /\ last'.seen.transmitted = transmitted \o msgBuffer
       /\ Len(transmitted') >= Len(last'.seen.transmitted)
       /\ SubSeq(transmitted', 1, Len(last'.seen.transmitted))
            = last'.seen.transmitted]_vars

\* C21: a close() call made from inside the handler of the 'error' or 'close'
\* event of a connection timeout, a heartbeat timeout, a resolution failure
\* or a transport close cancels the reconnect the callback has scheduled
\* before it emitted: after the handler has returned the controller is closed
\* and no reconnect timer is pending, and from then on no reconnect is
\* scheduled and no connection attempt starts.  Under SpecHandler the
\* handler is the only caller of close().
ClosedInHandler == last.handler = "closes" /\ last.invoked > 0

C21_CloseInHandlerCancelsReconnect ==
  [][/\ (~isClosed /\ ClosedInHandler') =>
          (isClosed' /\ ReconnectTimers(State') = 0)
     /\ isClosed => (ReconnectTimers(State') = 0 /\ last'.op # "connect")]_vars

====
